---- MODULE Spec2Model ----
(***************************************************************************)
(* Audio hosting backend: Express routes, auth middleware, audio           *)
(* controller, S3 service and error handler, as a state machine.           *)
(*                                                                         *)
(* The database (Prisma) and the S3 bucket are the shared state.  A        *)
(* handler that awaits one downstream call is one action; uploadAudio and  *)
(* deleteAudio await two or three calls in sequence and are modelled one   *)
(* step per await, so that concurrent requests interleave between them.    *)
(***************************************************************************)
EXTENDS Integers, Sequences, FiniteSets, TLC

VARIABLES
    users,       \* prisma.user: account id -> record
    audioFiles,  \* prisma.audioFile: asset id -> record
    bucket,      \* S3 bucket: the set of object keys present
    clock,       \* source of createdAt timestamps
    reqs,        \* uploadAudio / deleteAudio requests that reached a call to S3:
                 \* their locals (req, userId, key, found), where they stand
                 \* (pc), their response (status, body), and which downstream
                 \* call failed under them (fault)
    resp,        \* the response of a request answered in one step, until it is
                 \* delivered
    dashboard,   \* the Dashboard component's state (useState values)
    playing,     \* the Audio elements of the page that are playing
    handlers     \* handlePlay / handleDelete calls waiting for the server

\* The server's state and the client's.
server == <<users, audioFiles, bucket, clock, reqs, resp>>

client == <<dashboard, playing, handlers>>

vars == <<users, audioFiles, bucket, clock, reqs, resp, dashboard, playing, handlers>>

\* ------------------------------------------------------------------ bounds

\* Number of multi-step requests (uploads and deletes) in one behaviour.
NumProcs == 3

Procs == 1..NumProcs

\* Number of uploads and deletes in one behaviour of the fault-free API.
NumApiProcs == 2

ApiProcs == 1..NumApiProcs

\* Number of play and delete clicks in one behaviour of the Dashboard.
NumClicks == 3

Clicks == 1..NumClicks

\* Number of audio files the Dashboard is given.
NumFiles == 3

\* ------------------------------------------------------- program constants

TitleMax == 200

DescriptionMax == 1000

Categories ==
    {"Music", "Podcast", "Audiobook", "Sound Effect", "Voice Recording", "Other"}

\* --------------------------------------------------------------- strings

\* A string of whitespace and other characters, as far as trim() and length
\* can tell: `lead` whitespace characters followed by `core` others.
Str(lead, core) == [lead |-> lead, core |-> core]

length(s) == s.lead + s.core

trim(s) == Str(0, s.core)

\* JavaScript truthiness of a string: non-empty.
truthy(s) == length(s) > 0

\* ------------------------------------------------------ tokens and headers

UserIds == {"u1", "u2"}

NoToken == [userId |-> "none", sig |-> "none", exp |-> "none"]

Token(u, sig, exp) == [userId |-> u, sig |-> sig, exp |-> exp]

NoHeader == [scheme |-> "none", token |-> NoToken]

Bearer(t) == [scheme |-> "Bearer", token |-> t]

Basic(t) == [scheme |-> "Basic", token |-> t]

GoodHeaders == {Bearer(Token(u, "good", "live")) : u \in UserIds}

BadHeaders ==
    { NoHeader,
      Basic(Token("u1", "good", "live")),
      Bearer(Token("u1", "bad", "live")),
      Bearer(Token("u1", "good", "expired")) }

\* jwt.verify: the signature was made with JWT_SECRET and the token has not
\* expired.
jwtVerify(t) == t.sig = "good" /\ t.exp = "live"

\* authMiddleware decoding the token without verifying it.
authMiddlewareNoVerify(header) ==
    IF header.scheme # "Bearer"
    THEN [ok |-> FALSE, status |-> 401, error |-> "No token provided",
          userId |-> "none"]
    ELSE [ok |-> TRUE, status |-> 200, error |-> "",
          userId |-> header.token.userId]

authMiddleware(header) ==
    IF header.scheme # "Bearer"
    THEN [ok |-> FALSE, status |-> 401, error |-> "No token provided",
          userId |-> "none"]
    ELSE IF ~jwtVerify(header.token)
    THEN [ok |-> FALSE, status |-> 401, error |-> "Invalid or expired token",
          userId |-> "none"]
    ELSE [ok |-> TRUE, status |-> 200, error |-> "",
          userId |-> header.token.userId]

\* ------------------------------------------------------------------ files

FileSizeLimit == 52428800

AllowedMimeTypes == {"audio/avi", "audio/mp4", "audio/mpeg"}

File(name, mime, size) == [originalname |-> name, mimetype |-> mime, size |-> size]

NoFile == <<>>

fileFilter(file) == file.mimetype \in AllowedMimeTypes

\* multer configured without limits.fileSize.
multerNoLimit(file) ==
    IF file = NoFile THEN "next"
    ELSE IF ~fileFilter(file[1]) THEN "Invalid file type"
    ELSE "next"

\* upload.single("audio"): the outcome of the multer middleware for the
\* multipart payload.  No file part: the request goes on without req.file.
multer(file) ==
    IF file = NoFile THEN "next"
    ELSE IF ~fileFilter(file[1]) THEN "Invalid file type"
    ELSE IF file[1].size > FileSizeLimit THEN "LIMIT_FILE_SIZE"
    ELSE "next"

\* --------------------------------------------------------------- requests

NoStr == Str(0, 0)

NoDescription == <<>>

Request(op, header, id, fileName, userId, file, title, description, category) ==
    [op |-> op, header |-> header, id |-> id, fileName |-> fileName,
     userId |-> userId, file |-> file, title |-> title,
     description |-> description, category |-> category]

UploadRequest(header, file, title, description, category) ==
    Request("upload", header, 0, "", "", file, title, description, category)

ListRequest(header, category) ==
    Request("list", header, 0, "", "", NoFile, NoStr, NoDescription, category)

CheckRequest(header, fileName, userId) ==
    Request("check", header, 0, fileName, userId, NoFile, NoStr, NoDescription, "")

IdRequest(op, header, id) ==
    Request(op, header, id, "", "", NoFile, NoStr, NoDescription, "")

\* -------------------------------------------------------------- responses

ErrorBody(msg) == [kind |-> "error", error |-> msg]

MessageBody(msg) == [kind |-> "message", message |-> msg]

AudioFileBody(a) == [kind |-> "audioFile", audioFile |-> a]

ListBody(l) == [kind |-> "list", audioFiles |-> l]

UrlBody(key) == [kind |-> "url", url |-> [signedFor |-> key]]

CheckBody(a) == [kind |-> "check", message |-> "uploaded previously", audioFile |-> a]

Response(r, status, body) == [req |-> r, status |-> status, body |-> body]

\* The asset records a response body carries.
Records(body) ==
    CASE body.kind = "audioFile" -> {body.audioFile}
      [] body.kind = "check" -> {body.audioFile}
      [] body.kind = "list" -> {body.audioFiles[i] : i \in DOMAIN body.audioFiles}
      [] OTHER -> {}

\* ------------------------------------------------------------ errorHandler

S3Error == [name |-> "S3ServiceException", code |-> "", message |-> "s3"]

PrismaError(code) ==
    [name |-> "PrismaClientKnownRequestError", code |-> code, message |-> "prisma"]

MulterError(code) == [name |-> "MulterError", code |-> code, message |-> "multer"]

FileTypeError ==
    [name |-> "Error", code |-> "",
     message |-> "Invalid file type. Only audio files are allowed."]

\* errorHandler without its branch for Prisma's P2002.
errorHandlerNoP2002(err) ==
    IF err.name = "MulterError"
    THEN IF err.code = "LIMIT_FILE_SIZE"
         THEN [status |-> 400, body |-> ErrorBody("File too large")]
         ELSE [status |-> 400, body |-> ErrorBody("File upload error")]
    ELSE IF err = FileTypeError
    THEN [status |-> 400, body |-> ErrorBody("Invalid file type")]
    ELSE IF err.name = "ValidationError"
    THEN [status |-> 400, body |-> ErrorBody("Validation Error")]
    ELSE IF err.name \in {"UnauthorizedError", "JsonWebTokenError"}
    THEN [status |-> 401, body |-> ErrorBody("Unauthorized")]
    ELSE IF err.code = "P2025"
    THEN [status |-> 404, body |-> ErrorBody("Not Found")]
    ELSE IF err.name = "S3ServiceException"
    THEN [status |-> 500, body |-> ErrorBody("Storage Error")]
    ELSE [status |-> 500, body |-> ErrorBody(err.message)]

\* errorHandler without its branch for Prisma's P2025.
errorHandlerNoP2025(err) ==
    IF err.name = "MulterError"
    THEN IF err.code = "LIMIT_FILE_SIZE"
         THEN [status |-> 400, body |-> ErrorBody("File too large")]
         ELSE [status |-> 400, body |-> ErrorBody("File upload error")]
    ELSE IF err = FileTypeError
    THEN [status |-> 400, body |-> ErrorBody("Invalid file type")]
    ELSE IF err.name = "ValidationError"
    THEN [status |-> 400, body |-> ErrorBody("Validation Error")]
    ELSE IF err.name \in {"UnauthorizedError", "JsonWebTokenError"}
    THEN [status |-> 401, body |-> ErrorBody("Unauthorized")]
    ELSE IF err.code = "P2002"
    THEN [status |-> 409, body |-> ErrorBody("Duplicate Entry")]
    ELSE IF err.name = "S3ServiceException"
    THEN [status |-> 500, body |-> ErrorBody("Storage Error")]
    ELSE [status |-> 500, body |-> ErrorBody(err.message)]

errorHandler(err) ==
    IF err.name = "MulterError"
    THEN IF err.code = "LIMIT_FILE_SIZE"
         THEN [status |-> 400, body |-> ErrorBody("File too large")]
         ELSE [status |-> 400, body |-> ErrorBody("File upload error")]
    ELSE IF err = FileTypeError
    THEN [status |-> 400, body |-> ErrorBody("Invalid file type")]
    ELSE IF err.name = "ValidationError"
    THEN [status |-> 400, body |-> ErrorBody("Validation Error")]
    ELSE IF err.name \in {"UnauthorizedError", "JsonWebTokenError"}
    THEN [status |-> 401, body |-> ErrorBody("Unauthorized")]
    ELSE IF err.code = "P2002"
    THEN [status |-> 409, body |-> ErrorBody("Duplicate Entry")]
    ELSE IF err.code = "P2025"
    THEN [status |-> 404, body |-> ErrorBody("Not Found")]
    ELSE IF err.name = "S3ServiceException"
    THEN [status |-> 500, body |-> ErrorBody("Storage Error")]
    ELSE [status |-> 500, body |-> ErrorBody(err.message)]

\* The JSON bodies of errorHandler under process.env.NODE_ENV = nodeEnv, for
\* an error object with its name, code, message, status, $metadata and
\* stack.  status 0 and message "" stand for undefined.
IncludesInvalidFileType(message) ==
    message = "Invalid file type. Only audio files are allowed."

\* errorHandler spreading the stack into the default body whatever NODE_ENV
\* is.
errorHandlerJsonStack(err, nodeEnv) ==
    IF err.name = "MulterError"
    THEN IF err.code = "LIMIT_FILE_SIZE"
         THEN [status |-> 400,
               body |-> [error |-> "File too large",
                         details |-> "Maximum file size is 50MB"]]
         ELSE [status |-> 400,
               body |-> [error |-> "File upload error", details |-> err.message]]
    ELSE IF err.message # "" /\ IncludesInvalidFileType(err.message)
    THEN [status |-> 400,
          body |-> [error |-> "Invalid file type", details |-> err.message]]
    ELSE IF err.name = "ValidationError"
    THEN [status |-> 400,
          body |-> [error |-> "Validation Error", details |-> err.message]]
    ELSE IF err.name \in {"UnauthorizedError", "JsonWebTokenError"}
    THEN [status |-> 401,
          body |-> [error |-> "Unauthorized",
                    details |-> "Invalid or expired token"]]
    ELSE IF err.code = "P2002"
    THEN [status |-> 409,
          body |-> [error |-> "Duplicate Entry",
                    details |-> "A record with this value already exists"]]
    ELSE IF err.code = "P2025"
    THEN [status |-> 404,
          body |-> [error |-> "Not Found",
                    details |-> "The requested resource was not found"]]
    ELSE IF err.name = "S3ServiceException" \/ err.metadata
    THEN [status |-> 500,
          body |-> [error |-> "Storage Error",
                    details |-> "Failed to process file storage operation"]]
    ELSE [status |-> IF err.status # 0 THEN err.status ELSE 500,
          body |-> [error |-> IF err.message # "" THEN err.message
                              ELSE "Internal Server Error",
                    stack |-> err.stack]]

errorHandlerJson(err, nodeEnv) ==
    IF err.name = "MulterError"
    THEN IF err.code = "LIMIT_FILE_SIZE"
         THEN [status |-> 400,
               body |-> [error |-> "File too large",
                         details |-> "Maximum file size is 50MB"]]
         ELSE [status |-> 400,
               body |-> [error |-> "File upload error", details |-> err.message]]
    ELSE IF err.message # "" /\ IncludesInvalidFileType(err.message)
    THEN [status |-> 400,
          body |-> [error |-> "Invalid file type", details |-> err.message]]
    ELSE IF err.name = "ValidationError"
    THEN [status |-> 400,
          body |-> [error |-> "Validation Error", details |-> err.message]]
    ELSE IF err.name \in {"UnauthorizedError", "JsonWebTokenError"}
    THEN [status |-> 401,
          body |-> [error |-> "Unauthorized",
                    details |-> "Invalid or expired token"]]
    ELSE IF err.code = "P2002"
    THEN [status |-> 409,
          body |-> [error |-> "Duplicate Entry",
                    details |-> "A record with this value already exists"]]
    ELSE IF err.code = "P2025"
    THEN [status |-> 404,
          body |-> [error |-> "Not Found",
                    details |-> "The requested resource was not found"]]
    ELSE IF err.name = "S3ServiceException" \/ err.metadata
    THEN [status |-> 500,
          body |-> [error |-> "Storage Error",
                    details |-> "Failed to process file storage operation"]]
    ELSE [status |-> IF err.status # 0 THEN err.status ELSE 500,
          body |-> IF nodeEnv = "development"
                   THEN [error |-> IF err.message # "" THEN err.message
                                   ELSE "Internal Server Error",
                         stack |-> err.stack]
                   ELSE [error |-> IF err.message # "" THEN err.message
                                   ELSE "Internal Server Error"]]

\* --------------------------------------------------------------- database

\* The object key built without the uuid: audio/{userId}/{originalname}.
S3KeyNoUuid(userId, uuid, originalname) ==
    [userId |-> userId, uuid |-> 0, originalname |-> originalname]

\* The S3 object key of uploadToS3: audio/{userId}/{uuid}-{originalname}.
S3Key(userId, uuid, originalname) ==
    [userId |-> userId, uuid |-> uuid, originalname |-> originalname]

\* findUnique({ where: { id } }): the record, or none.
findUnique(id) == IF id \in DOMAIN audioFiles THEN <<audioFiles[id]>> ELSE <<>>

\* findMany without the userId of its where clause.
findManyAnyOwner(userId, category) ==
    { audioFiles[i] : i \in { j \in DOMAIN audioFiles :
          category # "" => audioFiles[j].category = category } }

\* findMany({ where }): the user's records, narrowed to the category when
\* the query gives one.
findMany(userId, category) ==
    { audioFiles[i] : i \in { j \in DOMAIN audioFiles :
          /\ audioFiles[j].userId = userId
          /\ (category # "" => audioFiles[j].category = category) } }

\* orderBy: { createdAt: "desc" }
RECURSIVE orderByCreatedAtDesc(_)
orderByCreatedAtDesc(S) ==
    IF S = {} THEN <<>>
    ELSE LET newest == CHOOSE a \in S : \A b \in S : b.createdAt <= a.createdAt
         IN <<newest>> \o orderByCreatedAtDesc(S \ {newest})

\* findFirst without the fileName of its where clause.
findFirstMatchesAnyName(fileName, userId) ==
    { audioFiles[i] : i \in { j \in DOMAIN audioFiles :
          audioFiles[j].userId = userId } }

\* findFirst({ where: { fileName, userId } }): the candidates.
findFirstMatches(fileName, userId) ==
    { audioFiles[i] : i \in { j \in DOMAIN audioFiles :
          /\ audioFiles[j].fileName = fileName
          /\ audioFiles[j].userId = userId } }

\* --------------------------------------------------------------- accounts

\* A username or password, as far as the validators and comparisons can
\* tell: its text and its number of characters.
Text(text, len) == [text |-> text, len |-> len]

\* A field the request body does not carry (undefined).
Absent == <<>>

\* bcrypt.hash(password, 10) and bcrypt.compare(password, hash).
bcryptHash(password) == [bcrypt |-> password.text]

bcryptCompare(password, hash) == hash = [bcrypt |-> password.text]

\* An email address and whether isEmail() accepts its form.
Email(addr, wellFormed) == [addr |-> addr, wellFormed |-> wellFormed]

isEmail(e) == e.wellFormed

\* A row of prisma.user; email is Absent for null.
User(username, password, email) ==
    [username |-> username, password |-> password, email |-> email]

Alice == Text("alice", 5)

Bob == Text("bob", 3)

Secret1 == Text("secret1", 7)

AliceEmail == Email("alice@example.com", TRUE)

\* The accounts registered before the behaviours start: u1 and u2.
InitialUsers ==
    ("u1" :> User(Alice, bcryptHash(Secret1), <<AliceEmail>>))
        @@ ("u2" :> User(Bob, bcryptHash(Secret1), Absent))

\* --------------------------------------------------- requests in progress

IdleReq ==
    [req |-> IdRequest("none", NoHeader, 0), userId |-> "none", pc |-> "idle",
     key |-> <<>>, found |-> <<>>, status |-> 0, body |-> MessageBody(""),
     fault |-> "none"]

Started(p) == reqs[p].pc # "idle"

Done(p) == reqs[p].pc = "done"

\* Requests take the slots in order.
Free(p) == ~Started(p) /\ (IF p = 1 THEN TRUE ELSE Started(p - 1))

Finish(p, status, body) ==
    reqs' = [reqs EXCEPT ![p].pc = "done", ![p].status = status, ![p].body = body]

\* next(error): the downstream call `call` threw err.
Fail(p, call, err) ==
    reqs' = [reqs EXCEPT ![p].pc = "done", ![p].fault = call,
                         ![p].status = errorHandler(err).status,
                         ![p].body = errorHandler(err).body]

Respond(r, status, body) == resp' = <<Response(r, status, body)>>

\* The Dashboard at its first render, and a handler call not yet made.
InitialDashboard ==
    [audioFiles |-> <<>>, filteredFiles |-> <<>>, category |-> "",
     loading |-> TRUE, error |-> "", playingId |-> 0, audioElement |-> <<>>]

IdleHandler ==
    [op |-> "none", id |-> 0, audioFiles |-> <<>>, pc |-> "idle", ok |-> FALSE]

Init ==
    /\ users = InitialUsers
    /\ audioFiles = <<>>
    /\ bucket = {}
    /\ clock = 0
    /\ reqs = [p \in Procs |-> IdleReq]
    /\ resp = <<>>
    /\ dashboard = InitialDashboard
    /\ playing = {}
    /\ handlers = [h \in Clicks |-> IdleHandler]

\* The client receives the response of a single-step request.
Deliver ==
    /\ resp # <<>>
    /\ resp' = <<>>
    /\ UNCHANGED <<users, audioFiles, bucket, clock, reqs>>
    /\ UNCHANGED client

\* router.use(authMiddleware) answering 401: the pipeline stops.
Unauthenticated(r) ==
    /\ resp = <<>>
    /\ ~authMiddleware(r.header).ok
    /\ Respond(r, authMiddleware(r.header).status,
               ErrorBody(authMiddleware(r.header).error))
    /\ UNCHANGED <<users, audioFiles, bucket, clock, reqs>>
    /\ UNCHANGED client

\* ------------------------------------------------------------ GET /audio

getUserAudioFiles(r) ==
    /\ r.op = "list"
    /\ resp = <<>>
    /\ authMiddleware(r.header).ok
    /\ LET userId == authMiddleware(r.header).userId
       IN Respond(r, 200,
                  ListBody(orderByCreatedAtDesc(findMany(userId, r.category))))
    /\ UNCHANGED <<users, audioFiles, bucket, clock, reqs>>
    /\ UNCHANGED client

\* ------------------------------------- GET /audio/check/:fileName/:userId

getAudioFileByName(r) ==
    /\ r.op = "check"
    /\ resp = <<>>
    /\ authMiddleware(r.header).ok
    /\ LET matches == findFirstMatches(r.fileName, r.userId)
       IN IF matches = {}
          THEN Respond(r, 200, MessageBody("Audio file not found, proceed with upload"))
          ELSE \E a \in matches : Respond(r, 200, CheckBody(a))
    /\ UNCHANGED <<users, audioFiles, bucket, clock, reqs>>
    /\ UNCHANGED client

\* -------------------------------------------------------- GET /audio/:id

getAudioFile(r) ==
    /\ r.op = "get"
    /\ resp = <<>>
    /\ authMiddleware(r.header).ok
    /\ LET userId == authMiddleware(r.header).userId
           audioFile == findUnique(r.id)
       IN IF audioFile = <<>>
          THEN Respond(r, 404, ErrorBody("Audio file not found"))
          ELSE IF audioFile[1].userId # userId
          THEN Respond(r, 403, ErrorBody("Forbidden"))
          ELSE Respond(r, 200, AudioFileBody(audioFile[1]))
    /\ UNCHANGED <<users, audioFiles, bucket, clock, reqs>>
    /\ UNCHANGED client

\* --------------------------------------------------- GET /audio/:id/play

\* getPlaybackUrl without its ownership check.
getPlaybackUrlAnyOwner(r) ==
    /\ r.op = "play"
    /\ resp = <<>>
    /\ authMiddleware(r.header).ok
    /\ LET audioFile == findUnique(r.id)
       IN IF audioFile = <<>>
          THEN Respond(r, 404, ErrorBody("Audio file not found"))
          ELSE Respond(r, 200, UrlBody(audioFile[1].s3Key))
    /\ UNCHANGED <<users, audioFiles, bucket, clock, reqs>>
    /\ UNCHANGED client

\* getPresignedUrl signs locally: it reads no state of the bucket.
getPlaybackUrl(r) ==
    /\ r.op = "play"
    /\ resp = <<>>
    /\ authMiddleware(r.header).ok
    /\ LET userId == authMiddleware(r.header).userId
           audioFile == findUnique(r.id)
       IN IF audioFile = <<>>
          THEN Respond(r, 404, ErrorBody("Audio file not found"))
          ELSE IF audioFile[1].userId # userId
          THEN Respond(r, 403, ErrorBody("Forbidden"))
          ELSE Respond(r, 200, UrlBody(audioFile[1].s3Key))
    /\ UNCHANGED <<users, audioFiles, bucket, clock, reqs>>
    /\ UNCHANGED client

\* ---------------------------------------------------- POST /audio/upload

\* The express-validator chains of the route.  They sanitise req.body and
\* record their findings on the request; a handler sees the findings only
\* through validationResult(req).
sanitizedTitle(r) == trim(r.title)

sanitizedDescription(r) ==
    IF r.description = NoDescription THEN NoDescription ELSE <<trim(r.description[1])>>

uploadValidators(r) ==
    (IF length(sanitizedTitle(r)) < 1 \/ length(sanitizedTitle(r)) > TitleMax
     THEN {"Title is required and must be less than 200 characters"} ELSE {})
    \cup
    (IF /\ r.description # NoDescription
        /\ length(sanitizedDescription(r)[1]) > DescriptionMax
     THEN {"Description must be less than 1000 characters"} ELSE {})
    \cup
    (IF r.category \notin Categories THEN {"Invalid category"} ELSE {})

\* description || null
descriptionOrNull(d) == IF d = NoDescription \/ ~truthy(d[1]) THEN NoDescription ELSE d

\* The record storing a key built without the uuid of the uploaded object.
NewAudioFileOtherKey(id, r, userId, key, createdAt) ==
    [id |-> id,
     title |-> sanitizedTitle(r),
     description |-> descriptionOrNull(sanitizedDescription(r)),
     category |-> r.category,
     s3Key |-> S3Key(userId, 0, r.file[1].originalname),
     s3Url |-> [bucketUrl |-> key],
     fileName |-> r.file[1].originalname,
     fileSize |-> r.file[1].size,
     mimeType |-> r.file[1].mimetype,
     userId |-> userId,
     createdAt |-> createdAt]

\* The record created without the description of the request.
NewAudioFileNoDescription(id, r, userId, key, createdAt) ==
    [id |-> id,
     title |-> sanitizedTitle(r),
     description |-> NoDescription,
     category |-> r.category,
     s3Key |-> key,
     s3Url |-> [bucketUrl |-> key],
     fileName |-> r.file[1].originalname,
     fileSize |-> r.file[1].size,
     mimeType |-> r.file[1].mimetype,
     userId |-> userId,
     createdAt |-> createdAt]

\* The data of prisma.audioFile.create in uploadAudio.
NewAudioFile(id, r, userId, key, createdAt) ==
    [id |-> id,
     title |-> sanitizedTitle(r),
     description |-> descriptionOrNull(sanitizedDescription(r)),
     category |-> r.category,
     s3Key |-> key,
     s3Url |-> [bucketUrl |-> key],
     fileName |-> r.file[1].originalname,
     fileSize |-> r.file[1].size,
     mimeType |-> r.file[1].mimetype,
     userId |-> userId,
     createdAt |-> createdAt]

\* uploadAudio not awaiting uploadToS3: it goes on to create the record
\* whether or not the object was stored.
uploadAudioNoAwait(p, r, s3ok) ==
    /\ r.op = "upload"
    /\ authMiddleware(r.header).ok
    /\ LET userId == authMiddleware(r.header).userId
           m == multer(r.file)
       IN IF m = "Invalid file type"
          THEN /\ resp = <<>>
               /\ Respond(r, errorHandler(FileTypeError).status,
                          errorHandler(FileTypeError).body)
               /\ UNCHANGED <<bucket, reqs>>
          ELSE IF m = "LIMIT_FILE_SIZE"
          THEN /\ resp = <<>>
               /\ Respond(r, errorHandler(MulterError(m)).status,
                          errorHandler(MulterError(m)).body)
               /\ UNCHANGED <<bucket, reqs>>
          ELSE IF r.file = NoFile
          THEN /\ resp = <<>>
               /\ Respond(r, 400, ErrorBody("No audio file provided"))
               /\ UNCHANGED <<bucket, reqs>>
          ELSE IF ~truthy(sanitizedTitle(r)) \/ r.category = ""
          THEN /\ resp = <<>>
               /\ Respond(r, 400, ErrorBody("Title and category are required"))
               /\ UNCHANGED <<bucket, reqs>>
          ELSE /\ Free(p)
               /\ LET key == S3Key(userId, p, r.file[1].originalname)
                  IN IF s3ok
                     THEN /\ bucket' = bucket \cup {key}
                          /\ reqs' = [reqs EXCEPT ![p].req = r, ![p].userId = userId,
                                                  ![p].key = <<key>>, ![p].pc = "create"]
                     ELSE /\ UNCHANGED bucket
                          /\ reqs' = [reqs EXCEPT ![p].req = r, ![p].userId = userId,
                                                  ![p].key = <<key>>, ![p].pc = "create",
                                                  ![p].fault = "s3"]
               /\ UNCHANGED resp
    /\ UNCHANGED <<users, audioFiles, clock>>
    /\ UNCHANGED client

\* uploadAudio up to its first await: multer, the controller's own checks,
\* then uploadToS3, which succeeds (s3ok) or throws.
uploadAudio(p, r, s3ok) ==
    /\ r.op = "upload"
    /\ authMiddleware(r.header).ok
    /\ LET userId == authMiddleware(r.header).userId
           m == multer(r.file)
       IN IF m = "Invalid file type"
          THEN /\ resp = <<>>
               /\ Respond(r, errorHandler(FileTypeError).status,
                          errorHandler(FileTypeError).body)
               /\ UNCHANGED <<bucket, reqs>>
          ELSE IF m = "LIMIT_FILE_SIZE"
          THEN /\ resp = <<>>
               /\ Respond(r, errorHandler(MulterError(m)).status,
                          errorHandler(MulterError(m)).body)
               /\ UNCHANGED <<bucket, reqs>>
          ELSE IF r.file = NoFile
          THEN /\ resp = <<>>
               /\ Respond(r, 400, ErrorBody("No audio file provided"))
               /\ UNCHANGED <<bucket, reqs>>
          ELSE IF ~truthy(sanitizedTitle(r)) \/ r.category = ""
          THEN /\ resp = <<>>
               /\ Respond(r, 400, ErrorBody("Title and category are required"))
               /\ UNCHANGED <<bucket, reqs>>
          ELSE /\ Free(p)
               /\ LET key == S3Key(userId, p, r.file[1].originalname)
                  IN IF s3ok
                     THEN /\ bucket' = bucket \cup {key}
                          /\ reqs' = [reqs EXCEPT ![p].req = r, ![p].userId = userId,
                                                  ![p].key = <<key>>, ![p].pc = "create"]
                     ELSE /\ UNCHANGED bucket
                          /\ reqs' = [reqs EXCEPT ![p].req = r, ![p].userId = userId,
                                                  ![p].pc = "done", ![p].fault = "s3",
                                                  ![p].status = errorHandler(S3Error).status,
                                                  ![p].body = errorHandler(S3Error).body]
               /\ UNCHANGED resp
    /\ UNCHANGED <<users, audioFiles, clock>>
    /\ UNCHANGED client

\* The create written as an upsert on the file name: a record of that name
\* is overwritten by the new upload.
uploadCreateUpsert(p, dbok) ==
    /\ reqs[p].pc = "create"
    /\ LET audioFile == NewAudioFile(p, reqs[p].req, reqs[p].userId,
                                     reqs[p].key[1], clock)
           same == { a \in DOMAIN audioFiles :
                       audioFiles[a].fileName = audioFile.fileName }
       IN IF reqs[p].userId \notin DOMAIN users
          THEN /\ Fail(p, "none", PrismaError("P2003"))
               /\ UNCHANGED <<audioFiles, clock>>
          ELSE IF dbok
          THEN /\ audioFiles' = [a \in DOMAIN audioFiles |->
                                    IF a \in same
                                    THEN [audioFile EXCEPT !.id = a]
                                    ELSE audioFiles[a]] @@ (p :> audioFile)
               /\ clock' = clock + 1
               /\ Finish(p, 201, AudioFileBody(audioFile))
          ELSE /\ Fail(p, "db", PrismaError("P1001"))
               /\ UNCHANGED <<audioFiles, clock>>
    /\ UNCHANGED <<users, bucket, resp>>
    /\ UNCHANGED client

\* prisma.audioFile.create, then 201 with the record.  The owner must exist
\* (foreign key); the database answers (dbok) or is unreachable.
uploadCreate(p, dbok) ==
    /\ reqs[p].pc = "create"
    /\ LET audioFile == NewAudioFile(p, reqs[p].req, reqs[p].userId,
                                     reqs[p].key[1], clock)
       IN IF reqs[p].userId \notin DOMAIN users
          THEN /\ Fail(p, "none", PrismaError("P2003"))
               /\ UNCHANGED <<audioFiles, clock>>
          ELSE IF dbok
          THEN /\ audioFiles' = audioFiles @@ (p :> audioFile)
               /\ clock' = clock + 1
               /\ Finish(p, 201, AudioFileBody(audioFile))
          ELSE /\ Fail(p, "db", PrismaError("P1001"))
               /\ UNCHANGED <<audioFiles, clock>>
    /\ UNCHANGED <<users, bucket, resp>>
    /\ UNCHANGED client

\* ----------------------------------------------------- DELETE /audio/:id

\* deleteAudio comparing owners before it looks whether the record exists.
deleteAudioOwnerFirst(p, r) ==
    /\ r.op = "delete"
    /\ authMiddleware(r.header).ok
    /\ LET userId == authMiddleware(r.header).userId
           audioFile == findUnique(r.id)
       IN IF audioFile = <<>> \/ audioFile[1].userId # userId
          THEN /\ resp = <<>>
               /\ Respond(r, 403, ErrorBody("Forbidden"))
               /\ UNCHANGED reqs
          ELSE /\ Free(p)
               /\ reqs' = [reqs EXCEPT ![p].req = r, ![p].userId = userId,
                                       ![p].found = audioFile,
                                       ![p].pc = "deleteFromS3"]
               /\ UNCHANGED resp
    /\ UNCHANGED <<users, audioFiles, bucket, clock>>
    /\ UNCHANGED client

\* deleteAudio up to the ownership check: 404, 403, or on to deleteFromS3.
deleteAudio(p, r) ==
    /\ r.op = "delete"
    /\ authMiddleware(r.header).ok
    /\ LET userId == authMiddleware(r.header).userId
           audioFile == findUnique(r.id)
       IN IF audioFile = <<>>
          THEN /\ resp = <<>>
               /\ Respond(r, 404, ErrorBody("Audio file not found"))
               /\ UNCHANGED reqs
          ELSE IF audioFile[1].userId # userId
          THEN /\ resp = <<>>
               /\ Respond(r, 403, ErrorBody("Forbidden"))
               /\ UNCHANGED reqs
          ELSE /\ Free(p)
               /\ reqs' = [reqs EXCEPT ![p].req = r, ![p].userId = userId,
                                       ![p].found = audioFile,
                                       ![p].pc = "deleteFromS3"]
               /\ UNCHANGED resp
    /\ UNCHANGED <<users, audioFiles, bucket, clock>>
    /\ UNCHANGED client

\* deleteFromS3 swallowing the error of a failed call.
deleteFromS3Swallowed(p, s3ok) ==
    /\ reqs[p].pc = "deleteFromS3"
    /\ IF s3ok
       THEN /\ bucket' = bucket \ {reqs[p].found[1].s3Key}
            /\ reqs' = [reqs EXCEPT ![p].pc = "delete",
                                    ![p].key = <<reqs[p].found[1].s3Key>>]
       ELSE /\ UNCHANGED bucket
            /\ reqs' = [reqs EXCEPT ![p].pc = "delete", ![p].fault = "s3"]
    /\ UNCHANGED <<users, audioFiles, clock, resp>>
    /\ UNCHANGED client

\* await deleteFromS3(audioFile.s3Key): S3 removes the object (a key that is
\* already gone is no error) when s3ok, or the call throws.
deleteFromS3(p, s3ok) ==
    /\ reqs[p].pc = "deleteFromS3"
    /\ IF s3ok
       THEN /\ bucket' = bucket \ {reqs[p].found[1].s3Key}
            /\ reqs' = [reqs EXCEPT ![p].pc = "delete",
                                    ![p].key = <<reqs[p].found[1].s3Key>>]
       ELSE /\ UNCHANGED bucket
            /\ Fail(p, "s3", S3Error)
    /\ UNCHANGED <<users, audioFiles, clock, resp>>
    /\ UNCHANGED client

\* await prisma.audioFile.delete({ where: { id } }), then 200.
deleteRecord(p, dbok) ==
    /\ reqs[p].pc = "delete"
    /\ LET id == reqs[p].req.id
       IN IF id \notin DOMAIN audioFiles
          THEN /\ Fail(p, "none", PrismaError("P2025"))
               /\ UNCHANGED audioFiles
          ELSE IF dbok
          THEN /\ audioFiles' = [i \in DOMAIN audioFiles \ {id} |-> audioFiles[i]]
               /\ Finish(p, 200, MessageBody("Audio file deleted successfully"))
          ELSE /\ Fail(p, "db", PrismaError("P1001"))
               /\ UNCHANGED audioFiles
    /\ UNCHANGED <<users, bucket, clock, resp>>
    /\ UNCHANGED client

\* The server process dies while a request waits for a downstream call.
Crash(p) ==
    /\ reqs[p].pc \in {"create", "deleteFromS3", "delete"}
    /\ reqs' = [reqs EXCEPT ![p].pc = "crashed"]
    /\ UNCHANGED <<users, audioFiles, bucket, clock, resp>>
    /\ UNCHANGED client

\* ---------------------------------------------------------- the schema

\* The unique constraints of the user table: another row than `id` holds the
\* username, or the email when one is given.
uniqueConstraintFails(id, username, email) ==
    \E u \in DOMAIN users \ {id} :
        \/ users[u].username = username
        \/ email # Absent /\ users[u].email = email

\* onDelete: Cascade of audioFile.userId: the rows left when user id goes.
onDeleteCascade(id) ==
    [i \in {j \in DOMAIN audioFiles : audioFiles[j].userId # id} |-> audioFiles[i]]

\* ------------------------------------------------------ account requests

\* A request of the auth and user routes: :id goes in userId, the body
\* fields are Absent or <<value>>.
AccountRequest(op, header, userId, username, password, email) ==
    [op |-> op, header |-> header, userId |-> userId, username |-> username,
     password |-> password, email |-> email]

ErrorsBody(errors) == [kind |-> "errors", errors |-> errors]

\* { token, user: { id, username, email } }; jwt.sign gives a token that
\* jwt.verify accepts.
AuthBody(id, user) ==
    [kind |-> "auth", token |-> Token(id, "good", "live"),
     user |-> [id |-> id, username |-> user.username, email |-> user.email]]

\* The row selected by update: id, username, email.
UserBody(id, user) ==
    [kind |-> "user",
     user |-> [id |-> id, username |-> user.username, email |-> user.email]]

\* The number of characters of a body field; an absent field counts as "".
fieldLength(f) == IF f = Absent THEN 0 ELSE f[1].len

\* ---------------------------------------------------- POST /auth/register

registerValidators(r) ==
    (IF fieldLength(r.username) < 3
     THEN {"Username must be at least 3 characters"} ELSE {})
    \cup
    (IF fieldLength(r.password) < 6
     THEN {"Password must be at least 6 characters"} ELSE {})
    \cup
    (IF r.email # Absent /\ ~isEmail(r.email[1])
     THEN {"Invalid email format"} ELSE {})

\* The ids the database gives to accounts created during a behaviour.
NewUserIds == {"u3"}

\* register without the validationResult check.
registerNoValidation(r) ==
    /\ r.op = "register"
    /\ resp = <<>>
    /\ r.username # Absent /\ r.password # Absent
    /\ IF uniqueConstraintFails("none", r.username[1], r.email)
       THEN /\ Respond(r, errorHandler(PrismaError("P2002")).status,
                       errorHandler(PrismaError("P2002")).body)
            /\ UNCHANGED users
       ELSE /\ NewUserIds \ DOMAIN users # {}
            /\ LET id == CHOOSE u \in NewUserIds : u \notin DOMAIN users
                   user == User(r.username[1], bcryptHash(r.password[1]), r.email)
               IN /\ users' = users @@ (id :> user)
                  /\ Respond(r, 201, AuthBody(id, user))
    /\ UNCHANGED <<audioFiles, bucket, clock, reqs>>
    /\ UNCHANGED client

\* register: validationResult, bcrypt.hash, prisma.user.create, jwt.sign.
register(r) ==
    /\ r.op = "register"
    /\ resp = <<>>
    /\ IF registerValidators(r) # {}
       THEN /\ Respond(r, 400, ErrorsBody(registerValidators(r)))
            /\ UNCHANGED users
       ELSE IF uniqueConstraintFails("none", r.username[1], r.email)
       THEN /\ Respond(r, errorHandler(PrismaError("P2002")).status,
                       errorHandler(PrismaError("P2002")).body)
            /\ UNCHANGED users
       ELSE /\ NewUserIds \ DOMAIN users # {}
            /\ LET id == CHOOSE u \in NewUserIds : u \notin DOMAIN users
                   user == User(r.username[1], bcryptHash(r.password[1]), r.email)
               IN /\ users' = users @@ (id :> user)
                  /\ Respond(r, 201, AuthBody(id, user))
    /\ UNCHANGED <<audioFiles, bucket, clock, reqs>>
    /\ UNCHANGED client

\* ------------------------------------------------------- POST /auth/login

loginValidators(r) ==
    (IF fieldLength(r.username) = 0 THEN {"Username is required"} ELSE {})
    \cup
    (IF fieldLength(r.password) = 0 THEN {"Password is required"} ELSE {})

\* prisma.user.findUnique({ where: { username } })
findUniqueByUsername(username) ==
    { u \in DOMAIN users : users[u].username = username }

\* login comparing nothing: any password of an existing account is taken.
loginNoCompare(r) ==
    /\ r.op = "login"
    /\ resp = <<>>
    /\ IF loginValidators(r) # {}
       THEN Respond(r, 400, ErrorsBody(loginValidators(r)))
       ELSE IF findUniqueByUsername(r.username[1]) = {}
       THEN Respond(r, 401, ErrorBody("Invalid credentials"))
       ELSE \E u \in findUniqueByUsername(r.username[1]) :
               Respond(r, 200, AuthBody(u, users[u]))
    /\ UNCHANGED <<users, audioFiles, bucket, clock, reqs>>
    /\ UNCHANGED client

\* login telling an unknown username apart: 404 "User not found".
loginUserNotFound(r) ==
    /\ r.op = "login"
    /\ resp = <<>>
    /\ IF loginValidators(r) # {}
       THEN Respond(r, 400, ErrorsBody(loginValidators(r)))
       ELSE IF findUniqueByUsername(r.username[1]) = {}
       THEN Respond(r, 404, ErrorBody("User not found"))
       ELSE \E u \in findUniqueByUsername(r.username[1]) :
               IF ~bcryptCompare(r.password[1], users[u].password)
               THEN Respond(r, 401, ErrorBody("Invalid credentials"))
               ELSE Respond(r, 200, AuthBody(u, users[u]))
    /\ UNCHANGED <<users, audioFiles, bucket, clock, reqs>>
    /\ UNCHANGED client

login(r) ==
    /\ r.op = "login"
    /\ resp = <<>>
    /\ IF loginValidators(r) # {}
       THEN Respond(r, 400, ErrorsBody(loginValidators(r)))
       ELSE IF findUniqueByUsername(r.username[1]) = {}
       THEN Respond(r, 401, ErrorBody("Invalid credentials"))
       ELSE \E u \in findUniqueByUsername(r.username[1]) :
               IF ~bcryptCompare(r.password[1], users[u].password)
               THEN Respond(r, 401, ErrorBody("Invalid credentials"))
               ELSE Respond(r, 200, AuthBody(u, users[u]))
    /\ UNCHANGED <<users, audioFiles, bucket, clock, reqs>>
    /\ UNCHANGED client

\* -------------------------------------------------------- PUT /users/:id

updateValidators(r) ==
    (IF r.username # Absent /\ fieldLength(r.username) < 3
     THEN {"Username must be at least 3 characters"} ELSE {})
    \cup
    (IF r.email # Absent /\ ~isEmail(r.email[1])
     THEN {"Invalid email format"} ELSE {})
    \cup
    (IF r.password # Absent /\ fieldLength(r.password) < 6
     THEN {"Password must be at least 6 characters"} ELSE {})

\* updateData applied to the row: only the fields the body supplies.
updateData(user, r) ==
    User(IF fieldLength(r.username) > 0 THEN r.username[1] ELSE user.username,
         IF fieldLength(r.password) > 0 THEN bcryptHash(r.password[1])
                                        ELSE user.password,
         IF r.email # Absent THEN r.email ELSE user.email)

\* updateUser without the comparison of req.user.userId with req.params.id.
updateUserAnyTarget(r) ==
    /\ r.op = "updateUser"
    /\ resp = <<>>
    /\ authMiddleware(r.header).ok
    /\ IF updateValidators(r) # {}
       THEN /\ Respond(r, 400, ErrorsBody(updateValidators(r)))
            /\ UNCHANGED users
       ELSE IF r.userId \notin DOMAIN users
       THEN /\ Respond(r, errorHandler(PrismaError("P2025")).status,
                       errorHandler(PrismaError("P2025")).body)
            /\ UNCHANGED users
       ELSE LET user == updateData(users[r.userId], r)
            IN IF uniqueConstraintFails(r.userId, user.username, user.email)
               THEN /\ Respond(r, errorHandler(PrismaError("P2002")).status,
                               errorHandler(PrismaError("P2002")).body)
                    /\ UNCHANGED users
               ELSE /\ users' = [users EXCEPT ![r.userId] = user]
                    /\ Respond(r, 200, UserBody(r.userId, user))
    /\ UNCHANGED <<audioFiles, bucket, clock, reqs>>
    /\ UNCHANGED client

\* updateUser: validationResult, the ownership check, bcrypt.hash,
\* prisma.user.update.
updateUser(r) ==
    /\ r.op = "updateUser"
    /\ resp = <<>>
    /\ authMiddleware(r.header).ok
    /\ IF updateValidators(r) # {}
       THEN /\ Respond(r, 400, ErrorsBody(updateValidators(r)))
            /\ UNCHANGED users
       ELSE IF authMiddleware(r.header).userId # r.userId
       THEN /\ Respond(r, 403, ErrorBody("Forbidden"))
            /\ UNCHANGED users
       ELSE IF r.userId \notin DOMAIN users
       THEN /\ Respond(r, errorHandler(PrismaError("P2025")).status,
                       errorHandler(PrismaError("P2025")).body)
            /\ UNCHANGED users
       ELSE LET user == updateData(users[r.userId], r)
            IN IF uniqueConstraintFails(r.userId, user.username, user.email)
               THEN /\ Respond(r, errorHandler(PrismaError("P2002")).status,
                               errorHandler(PrismaError("P2002")).body)
                    /\ UNCHANGED users
               ELSE /\ users' = [users EXCEPT ![r.userId] = user]
                    /\ Respond(r, 200, UserBody(r.userId, user))
    /\ UNCHANGED <<audioFiles, bucket, clock, reqs>>
    /\ UNCHANGED client

\* ----------------------------------------------------- DELETE /users/:id

\* deleteUser removing the account and leaving its audio files to the
\* application.
deleteUserNoCascade(r) ==
    /\ r.op = "deleteUser"
    /\ resp = <<>>
    /\ authMiddleware(r.header).ok
    /\ LET userId == authMiddleware(r.header).userId
       IN IF userId # r.userId
          THEN /\ Respond(r, 403, ErrorBody("Forbidden"))
               /\ UNCHANGED <<users, audioFiles>>
          ELSE IF r.userId \notin DOMAIN users
          THEN /\ Respond(r, errorHandler(PrismaError("P2025")).status,
                          errorHandler(PrismaError("P2025")).body)
               /\ UNCHANGED <<users, audioFiles>>
          ELSE /\ users' = [u \in DOMAIN users \ {r.userId} |-> users[u]]
               /\ UNCHANGED audioFiles
               /\ Respond(r, 200, MessageBody("User deleted successfully"))
    /\ UNCHANGED <<bucket, clock, reqs>>
    /\ UNCHANGED client

\* prisma.user.delete removes the account and, by the schema's cascade, the
\* audio files it owns; the bucket is not touched.
deleteUser(r) ==
    /\ r.op = "deleteUser"
    /\ resp = <<>>
    /\ authMiddleware(r.header).ok
    /\ LET userId == authMiddleware(r.header).userId
       IN IF userId # r.userId
          THEN /\ Respond(r, 403, ErrorBody("Forbidden"))
               /\ UNCHANGED <<users, audioFiles>>
          ELSE IF r.userId \notin DOMAIN users
          THEN /\ Respond(r, errorHandler(PrismaError("P2025")).status,
                          errorHandler(PrismaError("P2025")).body)
               /\ UNCHANGED <<users, audioFiles>>
          ELSE /\ users' = [u \in DOMAIN users \ {r.userId} |-> users[u]]
               /\ audioFiles' = onDeleteCascade(r.userId)
               /\ Respond(r, 200, MessageBody("User deleted successfully"))
    /\ UNCHANGED <<bucket, clock, reqs>>
    /\ UNCHANGED client

\* ------------------------------------------------------------------ inputs

\* The README's list of supported audio formats.
SupportedAudioFormats ==
    {"audio/mpeg", "audio/wav", "audio/ogg", "audio/mp4", "audio/aac",
     "audio/flac", "audio/webm"}


FileNames == {"a.mp3"}

GoodFile == <<File("a.mp3", "audio/mpeg", 1024)>>

\* Uploads that reach uploadToS3.
StoredInputs ==
    { <<GoodFile, Str(0, TitleMax), "Music">>,
      <<GoodFile, Str(0, TitleMax + 1), "Music">>,
      <<GoodFile, Str(0, TitleMax), "Jazz">> }

\* Uploads that multer or the controller turns away.
RejectedInputs ==
    { <<GoodFile, Str(0, 0), "Music">>,
      <<GoodFile, Str(1, 0), "Music">>,
      <<GoodFile, Str(0, TitleMax), "">>,
      <<NoFile, Str(0, TitleMax), "Music">>,
      <<<<File("a.mp3", "audio/wav", 1024)>>, Str(0, TitleMax), "Music">>,
      <<<<File("a.mp3", "audio/mpeg", FileSizeLimit + 1)>>, Str(0, TitleMax), "Music">> }

\* The upload form of the client: handleFileChange keeps the selected file
\* ("") or shows an error and keeps none.
validAudioTypes == {"audio/mpeg", "audio/mp3", "audio/mp4"}

maxSize == 52428800

handleFileChange(file) ==
    IF file.mimetype \notin validAudioTypes
    THEN "Invalid file type. Please select a valid audio file."
    ELSE IF file.size > maxSize
    THEN "File size exceeds 50MB limit."
    ELSE ""

\* Files a user selects, and the uploads the form submits: those of the
\* files it kept.
SelectedFiles ==
    { File("a.mp3", t, 1024) : t \in {"audio/mpeg", "audio/mp3", "audio/wav"} }
        \cup { File("a.mp3", "audio/mpeg", maxSize + 1) }

FormInputs ==
    { <<<<f>>, Str(0, TitleMax), "Music">> :
          f \in { g \in SelectedFiles : handleFileChange(g) = "" } }

UploadRequestsOf(inputs) ==
    { UploadRequest(h, i[1], i[2], NoDescription, i[3]) :
          h \in GoodHeaders, i \in inputs }

ListRequests == { ListRequest(h, c) : h \in GoodHeaders, c \in {"", "Music", "Jazz"} }

CheckRequests ==
    { CheckRequest(h, f, u) : h \in GoodHeaders, f \in FileNames, u \in UserIds }

ReadRequests ==
    { IdRequest(op, h, id) : op \in {"get", "play"}, h \in GoodHeaders, id \in ApiProcs }

DeleteRequestsOf(ids) == { IdRequest("delete", h, id) : h \in GoodHeaders, id \in ids }

\* Requests with a header authMiddleware must turn away: one of each route.
BadRequests ==
    { [r EXCEPT !.header = h] :
          h \in BadHeaders,
          r \in { UploadRequest(NoHeader, GoodFile, Str(0, TitleMax), NoDescription, "Music"),
                  ListRequest(NoHeader, ""),
                  CheckRequest(NoHeader, "a.mp3", "u1"),
                  IdRequest("get", NoHeader, 1),
                  IdRequest("play", NoHeader, 1),
                  IdRequest("delete", NoHeader, 1) } }

ApiRequests ==
    UploadRequestsOf(StoredInputs \cup RejectedInputs \cup FormInputs)
        \cup ListRequests
        \cup CheckRequests \cup ReadRequests \cup DeleteRequestsOf(ApiProcs)
        \cup BadRequests

\* ------------------------------------------------------------ specification

\* The API with every downstream call succeeding.
Next ==
    \/ \E r \in ApiRequests : Unauthenticated(r)
    \/ \E p \in ApiProcs, r \in ApiRequests : uploadAudio(p, r, TRUE)
    \/ \E p \in ApiProcs : uploadCreate(p, TRUE)
    \/ \E r \in ApiRequests : getUserAudioFiles(r)
    \/ \E r \in ApiRequests : getAudioFileByName(r)
    \/ \E r \in ApiRequests : getAudioFile(r)
    \/ \E r \in ApiRequests : getPlaybackUrl(r)
    \/ \E p \in ApiProcs, r \in ApiRequests : deleteAudio(p, r)
    \/ \E p \in ApiProcs : deleteFromS3(p, TRUE)
    \/ \E p \in ApiProcs : deleteRecord(p, TRUE)
    \/ Deliver

Spec == Init /\ [][Next]_vars

\* Uploads and deletes with failing downstream calls and crashes.
NextFaulty ==
    \/ \E p \in Procs, r \in UploadRequestsOf({<<GoodFile, Str(0, TitleMax), "Music">>}),
          s3ok \in BOOLEAN : uploadAudio(p, r, s3ok)
    \/ \E p \in Procs, dbok \in BOOLEAN : uploadCreate(p, dbok)
    \/ \E p \in Procs, r \in DeleteRequestsOf(Procs) : deleteAudio(p, r)
    \/ \E p \in Procs, s3ok \in BOOLEAN : deleteFromS3(p, s3ok)
    \/ \E p \in Procs, dbok \in BOOLEAN : deleteRecord(p, dbok)
    \/ \E p \in Procs : Crash(p)
    \/ Deliver

SpecFaulty == Init /\ [][NextFaulty]_vars

\* Uploads with whitespace around the title and the description, and with an
\* empty description.
LibraryUploads ==
    { UploadRequest(h, GoodFile, i[1], i[2], i[3]) :
          h \in GoodHeaders,
          i \in { <<Str(1, 3), <<Str(1, 2)>>, "Music">>,
                  <<Str(0, 3), <<Str(0, 0)>>, "Podcast">> } }
        \cup { UploadRequest(h, <<File("b.mp3", "audio/mp4", 2048)>>,
                             Str(0, 3), NoDescription, "Music") :
                  h \in {Bearer(Token("u1", "good", "live"))} }

LibraryChecks ==
    { CheckRequest(h, f, u) :
          h \in {Bearer(Token("u1", "good", "live"))},
          f \in {"a.mp3", "b.mp3"}, u \in UserIds }

LibraryLists == { ListRequest(h, c) : h \in GoodHeaders, c \in {"", "Music"} }

\* The library: uploads, listings, and deletes of the first asset.
NextLibrary ==
    \/ \E p \in Procs, r \in LibraryUploads : uploadAudio(p, r, TRUE)
    \/ \E p \in Procs : uploadCreate(p, TRUE)
    \/ \E r \in LibraryLists : getUserAudioFiles(r)
    \/ \E r \in LibraryChecks : getAudioFileByName(r)
    \/ \E p \in Procs, r \in DeleteRequestsOf({1}) : deleteAudio(p, r)
    \/ \E p \in Procs : deleteFromS3(p, TRUE)
    \/ \E p \in Procs : deleteRecord(p, TRUE)
    \/ Deliver

SpecLibrary == Init /\ [][NextLibrary]_vars

\* Usernames, passwords and an email the account requests carry.
Carol == Text("carol", 5)

Ab == Text("ab", 2)

NewPass1 == Text("newpass1", 8)

Short123 == Text("123", 3)

NotAnEmail == Email("alice.example.com", FALSE)

RegisterRequests ==
    { AccountRequest("register", NoHeader, "", <<u>>, <<pw>>, Absent) :
          u \in {Ab, Alice, Carol}, pw \in {Short123, Secret1} }
        \cup { AccountRequest("register", NoHeader, "", <<Carol>>, <<Secret1>>, <<e>>) :
                  e \in {AliceEmail, NotAnEmail} }

LoginRequests ==
    { AccountRequest("login", NoHeader, "", <<u>>, <<pw>>, Absent) :
          u \in {Alice, Carol}, pw \in {Secret1, NewPass1} }
        \cup { AccountRequest("login", NoHeader, "", <<Alice>>, <<Text("", 0)>>, Absent) }

\* Updates of the caller's own account, and of the other account with a
\* body that passes validation and one that does not.
UpdateRequests ==
    { AccountRequest("updateUser", h, h.token.userId, b[1], b[2], b[3]) :
          h \in GoodHeaders,
          b \in { <<<<Carol>>, Absent, Absent>>,
                  <<Absent, <<NewPass1>>, Absent>>,
                  <<<<Ab>>, Absent, Absent>>,
                  <<<<Alice>>, Absent, Absent>>,
                  <<Absent, Absent, <<AliceEmail>>>> } }
        \cup { r \in { AccountRequest("updateUser", h, u, <<n>>, Absent, Absent) :
                         h \in GoodHeaders, u \in UserIds, n \in {Carol, Ab} } :
                  r.userId # r.header.token.userId }

DeleteUserRequests ==
    { AccountRequest("deleteUser", h, u, Absent, Absent, Absent) :
          h \in GoodHeaders, u \in UserIds }

\* Accounts: registration, login, update and delete, beside uploads.
NextAccounts ==
    \/ \E r \in RegisterRequests : register(r)
    \/ \E r \in LoginRequests : login(r)
    \/ \E r \in UpdateRequests : updateUser(r)
    \/ \E r \in DeleteUserRequests : deleteUser(r)
    \/ \E p \in ApiProcs, r \in UploadRequestsOf({<<GoodFile, Str(0, TitleMax), "Music">>}) :
          uploadAudio(p, r, TRUE)
    \/ \E p \in ApiProcs : uploadCreate(p, TRUE)
    \/ Deliver

SpecAccounts == Init /\ [][NextAccounts]_vars

\* Values of NODE_ENV, and the errors passed to next(error).
NodeEnvs == {"production", "development", "test"}

ThrownErrors ==
    [name : {"Error", "MulterError", "ValidationError", "UnauthorizedError",
             "JsonWebTokenError", "PrismaClientKnownRequestError",
             "S3ServiceException"},
     code : {"", "LIMIT_FILE_SIZE", "P2002", "P2025"},
     message : {"", "boom", "Invalid file type. Only audio files are allowed."},
     status : {0, 404},
     metadata : BOOLEAN,
     stack : {"Error: at Layer.handle"}]

\* next(err) reaching errorHandler in a process whose NODE_ENV is nodeEnv.
next(err, nodeEnv) ==
    /\ resp = <<>>
    /\ Respond([op |-> "next", err |-> err, nodeEnv |-> nodeEnv],
               errorHandlerJson(err, nodeEnv).status,
               errorHandlerJson(err, nodeEnv).body)
    /\ UNCHANGED <<users, audioFiles, bucket, clock, reqs>>
    /\ UNCHANGED client

\* The error handler over the errors it distinguishes, in each configuration.
NextErrors ==
    \/ \E err \in ThrownErrors, nodeEnv \in NodeEnvs : next(err, nodeEnv)
    \/ Deliver

SpecErrors == Init /\ [][NextErrors]_vars

\* ------------------------------------------------------ Dashboard (client)

\* The list GET /api/audio answers the Dashboard with.
ResponseData ==
    [i \in 1..NumFiles |->
        [id |-> i, category |-> IF i % 2 = 1 THEN "Music" ELSE "Podcast"]]

\* The effect on [category, audioFiles]: filteredFiles follows them.
filterEffect(d) ==
    [d EXCEPT !.filteredFiles =
        IF d.category # ""
        THEN SelectSeq(d.audioFiles, LAMBDA file : file.category = d.category)
        ELSE d.audioFiles]

\* The ids of the cards on display.
Displayed == { dashboard.filteredFiles[i].id : i \in DOMAIN dashboard.filteredFiles }

\* new Audio(url) made by handler call h for file id.
Audio(h, id) == [element |-> h, src |-> id]

\* Handler calls take the slots in order.
FreeHandler(h) ==
    /\ handlers[h].pc = "idle"
    /\ IF h = 1 THEN TRUE ELSE handlers[h - 1].pc # "idle"

\* fetchAudioFiles, run once on mount: the list arrives (ok) or the request
\* fails.
fetchAudioFiles(ok) ==
    /\ dashboard.loading
    /\ dashboard' =
          IF ok
          THEN filterEffect([dashboard EXCEPT !.audioFiles = ResponseData,
                                              !.filteredFiles = ResponseData,
                                              !.loading = FALSE])
          ELSE [dashboard EXCEPT !.error = "Failed to fetch audio files",
                                 !.loading = FALSE]
    /\ UNCHANGED <<playing, handlers>>
    /\ UNCHANGED server

\* The category select: setCategory, then the effect.
setCategory(category) ==
    /\ ~dashboard.loading
    /\ category # dashboard.category
    /\ dashboard' = filterEffect([dashboard EXCEPT !.category = category])
    /\ UNCHANGED <<playing, handlers>>
    /\ UNCHANGED server

\* handlePlay(id) up to its await: a click on the playing card pauses the
\* current element and returns; any other click pauses the current element,
\* if there is one, and requests the playback URL.
handlePlay(h, id) ==
    /\ ~dashboard.loading
    /\ id \in Displayed
    /\ FreeHandler(h)
    /\ IF dashboard.playingId = id
       THEN /\ playing' = playing \ {dashboard.audioElement[1]}
            /\ dashboard' = [dashboard EXCEPT !.playingId = 0]
            /\ handlers' = [handlers EXCEPT ![h].op = "play", ![h].id = id,
                                            ![h].pc = "done"]
       ELSE /\ playing' = IF dashboard.audioElement # <<>>
                          THEN playing \ {dashboard.audioElement[1]}
                          ELSE playing
            /\ handlers' = [handlers EXCEPT ![h].op = "play", ![h].id = id,
                                            ![h].pc = "await"]
            /\ UNCHANGED dashboard
    /\ UNCHANGED server

\* handlePlay after its await: the URL arrived (ok) and a new element plays
\* and becomes the current one, or the request failed.
handlePlayResume(h, ok) ==
    /\ handlers[h].op = "play"
    /\ handlers[h].pc = "await"
    /\ IF ok
       THEN /\ playing' = playing \cup {Audio(h, handlers[h].id)}
            /\ dashboard' = [dashboard EXCEPT
                                !.audioElement = <<Audio(h, handlers[h].id)>>,
                                !.playingId = handlers[h].id]
       ELSE /\ dashboard' = [dashboard EXCEPT !.error = "Failed to play audio"]
            /\ UNCHANGED playing
    /\ handlers' = [handlers EXCEPT ![h].pc = "done", ![h].ok = ok]
    /\ UNCHANGED server

\* audio.onended: the element stopped at its end.
onended(audio) ==
    /\ audio \in playing
    /\ playing' = playing \ {audio}
    /\ dashboard' = [dashboard EXCEPT !.playingId = 0]
    /\ UNCHANGED handlers
    /\ UNCHANGED server

\* handleDelete(id), confirmed, up to its await; the handler keeps the
\* audioFiles of the render it was created in.
handleDelete(h, id) ==
    /\ ~dashboard.loading
    /\ id \in Displayed
    /\ FreeHandler(h)
    /\ handlers' = [handlers EXCEPT ![h].op = "delete", ![h].id = id,
                                    ![h].audioFiles = dashboard.audioFiles,
                                    ![h].pc = "await"]
    /\ UNCHANGED <<dashboard, playing>>
    /\ UNCHANGED server

\* handleDelete after its await: setAudioFiles with the handler's own
\* audioFiles less the deleted one, then the effect; or the request failed.
handleDeleteResume(h, ok) ==
    /\ handlers[h].op = "delete"
    /\ handlers[h].pc = "await"
    /\ dashboard' =
          IF ok
          THEN filterEffect([dashboard EXCEPT !.audioFiles =
                   SelectSeq(handlers[h].audioFiles,
                             LAMBDA file : file.id # handlers[h].id)])
          ELSE [dashboard EXCEPT !.error = "Failed to delete audio file"]
    /\ handlers' = [handlers EXCEPT ![h].pc = "done", ![h].ok = ok]
    /\ UNCHANGED playing
    /\ UNCHANGED server

\* The Dashboard with the server's answers as inputs.
NextDashboard ==
    \/ \E ok \in BOOLEAN : fetchAudioFiles(ok)
    \/ \E category \in {"", "Music"} : setCategory(category)
    \/ \E h \in Clicks, id \in 1..NumFiles : handlePlay(h, id)
    \/ \E h \in Clicks, ok \in BOOLEAN : handlePlayResume(h, ok)
    \/ \E audio \in playing : onended(audio)
    \/ \E h \in Clicks, id \in 1..NumFiles : handleDelete(h, id)
    \/ \E h \in Clicks, ok \in BOOLEAN : handleDeleteResume(h, ok)

SpecDashboard == Init /\ [][NextDashboard]_vars

\* ================================================================= claims

\* The identity a request's token asserts, and whether the header is a
\* Bearer header with a correctly signed, unexpired token.
Caller(r) == r.header.token.userId

ValidBearer(r) ==
    /\ r.header.scheme = "Bearer"
    /\ r.header.token.sig = "good"
    /\ r.header.token.exp = "live"

\* This step answers a single-step request / starts request p.
Answers == resp = <<>> /\ resp' # <<>>

Starts(p) == reqs[p].pc = "idle" /\ reqs'[p].pc # "idle"

\* The asset exists and belongs to somebody else than the caller of r.
OthersAsset(r) ==
    /\ r.id \in DOMAIN audioFiles
    /\ audioFiles[r.id].userId # Caller(r)

\* C1: read-single, playback and delete of an asset by an authenticated
\* caller who is not its owner answer 403, carry no record and no signed URL,
\* and leave the record and the blob in place.
ForbiddenStep ==
    (/\ Answers
     /\ resp'[1].req.op \in {"get", "play", "delete"}
     /\ ValidBearer(resp'[1].req)
     /\ OthersAsset(resp'[1].req))
    => /\ resp'[1].status = 403
       /\ resp'[1].body.kind = "error"
       /\ UNCHANGED <<audioFiles, bucket, reqs>>

ForbiddenToOthers ==
    /\ [](\A p \in Procs : Started(p) /\ reqs[p].req.op = "delete"
             => reqs[p].found # <<>> /\ reqs[p].found[1].userId = Caller(reqs[p].req))
    /\ [][ForbiddenStep]_vars

\* A delete by a non-owner of an existing asset was answered 403, and the
\* record and its blob are still there.
ForbiddenToOthersWitness ==
    /\ resp # <<>>
    /\ resp[1].req.op = "delete"
    /\ resp[1].status = 403
    /\ OthersAsset(resp[1].req)
    /\ audioFiles[resp[1].req.id].s3Key \in bucket

\* C2: no response of any operation carries an asset record to an
\* authenticated caller who is not the asset's owner.
OwnerOnlyVisible ==
    /\ resp # <<>> =>
          \A a \in Records(resp[1].body) : a.userId = Caller(resp[1].req)
    /\ \A p \in Procs :
          \A a \in Records(reqs[p].body) : a.userId = Caller(reqs[p].req)

\* C3: a request whose Authorization header is absent, not a Bearer header,
\* or carries a token failing verification is answered 401 and changes
\* nothing; no controller ever runs for it.
UnauthenticatedStep ==
    (Answers /\ ~ValidBearer(resp'[1].req))
    => /\ resp'[1].status = 401
       /\ resp'[1].body.kind = "error"
       /\ UNCHANGED <<users, audioFiles, bucket, clock, reqs>>

NotFoundStep ==
    (/\ Answers
     /\ resp'[1].req.op \in {"get", "play", "delete"}
     /\ ValidBearer(resp'[1].req))
    => /\ resp'[1].req.id \notin DOMAIN audioFiles => resp'[1].status = 404
       /\ resp'[1].status = 403 => OthersAsset(resp'[1].req)

BlobBeforeRecordStep ==
    /\ \A a \in DOMAIN audioFiles' \ DOMAIN audioFiles :
          /\ audioFiles'[a].s3Key \in bucket
          /\ reqs[a].req.op = "upload"
          /\ reqs[a].fault = "none"
          /\ reqs[a].key = <<audioFiles'[a].s3Key>>
    /\ \A p \in Procs :
          (/\ reqs'[p].req.op = "upload"
           /\ reqs[p].fault = "none"
           /\ reqs'[p].fault = "s3")
          => /\ reqs'[p].pc = "done"
             /\ audioFiles' = audioFiles

BlobBeforeRecord ==
    /\ [](\A p \in Procs :
            (reqs[p].req.op = "upload" /\ reqs[p].fault = "s3")
            => /\ reqs[p].pc = "done"
               /\ reqs[p].status = 500
               /\ p \notin DOMAIN audioFiles)
    /\ [][BlobBeforeRecordStep]_vars

\* One upload failed at the blob write and was answered 500; another wrote
\* its blob and then created its record.
BlobBeforeRecordWitness ==
    \E p, q \in Procs :
        /\ reqs[p].req.op = "upload"
        /\ reqs[p].fault = "s3"
        /\ reqs[p].status = 500
        /\ reqs[q].req.op = "upload"
        /\ reqs[q].status = 201
        /\ q \in DOMAIN audioFiles
        /\ audioFiles[q].s3Key \in bucket

\* C6: when the blob deletion of a delete fails, the request ends with 500,
\* the record deletion is never attempted and the record keeps all its
\* fields; the asset can still be deleted afterwards.
BlobDeleteFailedStep ==
    \A p \in Procs :
        (/\ reqs[p].req.op = "delete"
         /\ reqs[p].fault = "none"
         /\ reqs'[p].fault = "s3")
        => /\ reqs'[p].pc = "done"
           /\ reqs'[p].status = 500
           /\ UNCHANGED <<audioFiles, bucket>>
           /\ reqs[p].req.id \in DOMAIN audioFiles
                 => audioFiles'[reqs[p].req.id] = reqs[p].found[1]

DeleteAbortsOnBlobFailure ==
    /\ [](\A p \in Procs :
            (reqs[p].req.op = "delete" /\ reqs[p].fault = "s3")
            => /\ reqs[p].pc = "done"
               /\ reqs[p].status = 500
               /\ reqs[p].key = <<>>)
    /\ [][BlobDeleteFailedStep]_vars

\* A delete failed at the blob deletion (500), and a delete of the same
\* asset that started after it succeeded (200).
DeleteAbortsOnBlobFailureWitness ==
    \E p, q \in Procs :
        /\ p < q
        /\ reqs[p].req.op = "delete"
        /\ reqs[p].fault = "s3"
        /\ reqs[p].status = 500
        /\ reqs[q].req.op = "delete"
        /\ reqs[q].req.id = reqs[p].req.id
        /\ reqs[q].status = 200
        /\ reqs[q].found = reqs[p].found

\* C7, as the spec states it: every asset record's storage key refers to a
\* blob present in the bucket, in every reachable state.
NoDanglingRecord ==
    \A a \in DOMAIN audioFiles : audioFiles[a].s3Key \in bucket

\* The delete request p has had the blob of asset a removed.
BlobDeletedBy(p, a) ==
    /\ reqs[p].req.op = "delete"
    /\ reqs[p].req.id = a
    /\ reqs[p].key = <<audioFiles[a].s3Key>>

\* C7, amended: a record whose blob is missing exists only where a delete
\* request for that asset has completed its blob deletion (and its record
\* deletion is pending, crashed or failed); the upload flow creates none.
DanglingOnlyAfterBlobDelete ==
    \A a \in DOMAIN audioFiles :
        \/ audioFiles[a].s3Key \in bucket
        \/ \E p \in Procs : BlobDeletedBy(p, a)

\* A record points at a missing blob after its delete request crashed
\* between the two steps, beside an orphaned blob of a failed upload.
DanglingOnlyAfterBlobDeleteWitness ==
    \E a \in DOMAIN audioFiles, p, q \in Procs :
        /\ audioFiles[a].s3Key \notin bucket
        /\ BlobDeletedBy(p, a)
        /\ reqs[p].pc = "crashed"
        /\ reqs[q].req.op = "upload"
        /\ reqs[q].pc \in {"crashed", "done"}
        /\ q \notin DOMAIN audioFiles
        /\ reqs[q].key # <<>>
        /\ reqs[q].key[1] \in bucket

\* Two delete requests for the same asset, both past the existence and
\* ownership checks, both answered, with no downstream call failing under
\* them and no third delete of that asset past the checks.
OwnerDeletePair(p, q) ==
    /\ p # q
    /\ reqs[p].req.op = "delete" /\ reqs[q].req.op = "delete"
    /\ reqs[p].req.id = reqs[q].req.id
    /\ Done(p) /\ Done(q)
    /\ reqs[p].fault = "none" /\ reqs[q].fault = "none"
    /\ \A o \in Procs \ {p, q} :
          ~(reqs[o].req.op = "delete" /\ reqs[o].req.id = reqs[p].req.id)

\* The asset of the request just answered has been deleted by a delete
\* request that was answered 200.
DeletedBefore(r) ==
    \E p \in Procs :
        /\ reqs[p].req.op = "delete"
        /\ reqs[p].req.id = r.id
        /\ reqs[p].status = 200

\* C8: of two deletes of the same asset by its owner, in sequence or
\* interleaved, exactly one is answered 200 and the other 404; a delete
\* never succeeds twice, and a record found missing at the record deletion
\* is answered 404.
DeleteSucceedsOnce ==
    /\ [](\A p, q \in Procs :
            /\ (/\ p # q
                /\ reqs[p].req.op = "delete" /\ reqs[q].req.op = "delete"
                /\ reqs[p].req.id = reqs[q].req.id)
               => ~(reqs[p].status = 200 /\ reqs[q].status = 200)
            /\ OwnerDeletePair(p, q)
               => {reqs[p].status, reqs[q].status} = {200, 404})
    /\ [][(/\ Answers
           /\ resp'[1].req.op = "delete"
           /\ ValidBearer(resp'[1].req)
           /\ DeletedBefore(resp'[1].req))
          => /\ resp'[1].status = 404
             /\ UNCHANGED <<audioFiles, bucket, reqs>>]_vars

\* Two interleaved deletes both found the record; one removed it (200) and
\* the other met the missing record at its record deletion (404); a third
\* delete, issued afterwards, was answered 404 by the existence check.
DeleteSucceedsOnceWitness ==
    /\ \E p, q \in Procs :
          /\ OwnerDeletePair(p, q)
          /\ reqs[p].status = 200
          /\ reqs[q].status = 404
          /\ reqs[q].body = ErrorBody("Not Found")
    /\ resp # <<>>
    /\ resp[1].req.op = "delete"
    /\ resp[1].status = 404
    /\ DeletedBefore(resp[1].req)

\* C9: an upload whose category is not in the enumeration is answered 400
\* before any downstream call: no blob is written for it and every stored
\* asset's category is in the enumeration.
CategoryEnforced ==
    /\ \A p \in Procs :
          (Started(p) /\ reqs[p].req.op = "upload")
          => reqs[p].req.category \in Categories
    /\ \A a \in DOMAIN audioFiles : audioFiles[a].category \in Categories

\* C10: with a valid file and category, a title of exactly 200 characters is
\* accepted (201), and a title of 201 characters or an empty title is
\* answered 400 and creates no blob or record.
TitleBoundary ==
    /\ \A p \in Procs :
          (Started(p) /\ reqs[p].req.op = "upload")
          => /\ length(reqs[p].req.title) \in 1..TitleMax
             /\ (Done(p) /\ length(reqs[p].req.title) = TitleMax
                   /\ reqs[p].req.category \in Categories)
                => reqs[p].status = 201
    /\ (/\ resp # <<>>
        /\ resp[1].req.op = "upload"
        /\ ValidBearer(resp[1].req)
        /\ resp[1].req.file = GoodFile
        /\ resp[1].req.category \in Categories
        /\ length(resp[1].req.title) \in {0, TitleMax + 1})
       => resp[1].status = 400

\* The file of r is over the size cap or of a content type outside the
\* allow-list.
OverCapOrWrongType(r) ==
    /\ r.file # NoFile
    /\ \/ r.file[1].size > FileSizeLimit
       \/ r.file[1].mimetype \notin {"audio/avi", "audio/mp4", "audio/mpeg"}

\* C11: an upload whose payload exceeds the 50 MB cap or whose content type
\* is outside the allow-list is answered 400 by the multer stage: the upload
\* controller never runs for it, no blob is written and no record created.
RejectedByMulterStep ==
    (/\ Answers
     /\ resp'[1].req.op = "upload"
     /\ ValidBearer(resp'[1].req)
     /\ OverCapOrWrongType(resp'[1].req))
    => /\ resp'[1].status = 400
       /\ resp'[1].body \in {ErrorBody("File too large"), ErrorBody("Invalid file type")}
       /\ UNCHANGED <<users, audioFiles, bucket, clock, reqs>>

RejectedByMulter ==
    /\ [](\A p \in Procs :
            (Started(p) /\ reqs[p].req.op = "upload")
            => ~OverCapOrWrongType(reqs[p].req))
    /\ [][RejectedByMulterStep]_vars

\* An upload of more than 50 MB was answered 400 "File too large" while an
\* earlier upload by the same caller is stored.
RejectedByMulterWitness ==
    /\ resp # <<>>
    /\ resp[1].req.op = "upload"
    /\ resp[1].req.file # NoFile
    /\ resp[1].req.file[1].size > FileSizeLimit
    /\ resp[1].status = 400
    /\ resp[1].body = ErrorBody("File too large")
    /\ \E a \in DOMAIN audioFiles : audioFiles[a].userId = Caller(resp[1].req)

\* C12: an authenticated upload of a file of any content type the README
\* lists as supported, within the size cap and with a valid title and
\* category, passes the file filter and is not turned away.
SupportedFormatsAccepted ==
    (/\ resp # <<>>
     /\ resp[1].req.op = "upload"
     /\ ValidBearer(resp[1].req)
     /\ resp[1].req.file # NoFile
     /\ resp[1].req.file[1].mimetype \in SupportedAudioFormats
     /\ resp[1].req.file[1].size <= FileSizeLimit
     /\ length(trim(resp[1].req.title)) \in 1..TitleMax
     /\ resp[1].req.category \in Categories)
    => resp[1].status = 201

\* C15: a listing whose category filter is present but not in the
\* enumeration is answered 400, not with a list.
ListCategoryEnforced ==
    (/\ resp # <<>>
     /\ resp[1].req.op = "list"
     /\ ValidBearer(resp[1].req)
     /\ resp[1].req.category # ""
     /\ resp[1].req.category \notin Categories)
    => /\ resp[1].status = 400
       /\ resp[1].body.kind = "error"

\* The listing just answered carries the asset of upload p exactly once,
\* with the given title and description and the submitted category, file
\* name, size and content type.
ListedOnce(p, title, description) ==
    LET l == resp'[1].body.audioFiles
        hits == { i \in DOMAIN l : l[i].id = p }
    IN /\ Cardinality(hits) = 1
       /\ \A i \in hits :
             /\ l[i].title = title
             /\ l[i].description = description
             /\ l[i].category = reqs[p].req.category
             /\ l[i].fileName = reqs[p].req.file[1].originalname
             /\ l[i].fileSize = reqs[p].req.file[1].size
             /\ l[i].mimeType = reqs[p].req.file[1].mimetype

\* The step answers an unfiltered listing to the caller of upload p, which
\* was answered 201 and whose asset has not been deleted since.
ListsAfterUpload(p) ==
    /\ Answers
    /\ resp'[1].req.op = "list"
    /\ ValidBearer(resp'[1].req)
    /\ resp'[1].req.category = ""
    /\ reqs[p].req.op = "upload"
    /\ reqs[p].status = 201
    /\ Caller(reqs[p].req) = Caller(resp'[1].req)
    /\ p \in DOMAIN audioFiles

\* C13, as the spec states it: a listing after a successful upload carries
\* the new asset exactly once with title, description, category, file name,
\* size and content type equal to the submitted values verbatim.
RoundTripVerbatim ==
    [][\A p \in Procs :
          ListsAfterUpload(p)
          => ListedOnce(p, reqs[p].req.title, reqs[p].req.description)]_vars

\* What trim() and `description || null` leave of a submitted description.
TrimmedOrNull(d) ==
    IF d = NoDescription THEN NoDescription
    ELSE IF d[1].core = 0 THEN NoDescription
    ELSE <<Str(0, d[1].core)>>

\* C13, amended: the listing carries the new asset exactly once; its title
\* and description are the submitted ones without leading and trailing
\* whitespace, an empty description coming back as null; category, file
\* name, size and content type are the submitted values verbatim.
RoundTripTrimmed ==
    [][\A p \in Procs :
          ListsAfterUpload(p)
          => ListedOnce(p, Str(0, reqs[p].req.title.core),
                        TrimmedOrNull(reqs[p].req.description))]_vars

\* An unfiltered listing carries an asset submitted with whitespace around
\* its title and description, and one submitted with an empty description.
RoundTripTrimmedWitness ==
    /\ resp # <<>>
    /\ resp[1].req.op = "list"
    /\ resp[1].req.category = ""
    /\ \E i, j \in DOMAIN resp[1].body.audioFiles :
          LET a == resp[1].body.audioFiles[i]
              b == resp[1].body.audioFiles[j]
          IN /\ reqs[a.id].req.title.lead > 0
             /\ reqs[a.id].req.description # NoDescription
             /\ reqs[a.id].req.description[1].lead > 0
             /\ a.description # NoDescription
             /\ reqs[b.id].req.description = <<Str(0, 0)>>
             /\ b.description = NoDescription

\* C14: a listing returns exactly the asset records the caller currently
\* owns, narrowed to the category when a filter is given, each once, newest
\* created first, in one response.
ListReturnsOwnedStep ==
    (/\ Answers
     /\ resp'[1].req.op = "list"
     /\ ValidBearer(resp'[1].req))
    => LET r == resp'[1].req
           l == resp'[1].body.audioFiles
           owned == { audioFiles[a] : a \in { b \in DOMAIN audioFiles :
                         /\ audioFiles[b].userId = Caller(r)
                         /\ r.category # "" => audioFiles[b].category = r.category } }
       IN /\ resp'[1].status = 200
          /\ resp'[1].body.kind = "list"
          /\ { l[i] : i \in DOMAIN l } = owned
          /\ Len(l) = Cardinality(owned)
          /\ \A i, j \in DOMAIN l : i < j => l[i].createdAt >= l[j].createdAt

ListReturnsOwned == [][ListReturnsOwnedStep]_vars

\* A listing of two assets, the newer first, while another account owns an
\* asset.
ListReturnsOwnedWitness ==
    /\ resp # <<>>
    /\ resp[1].req.op = "list"
    /\ Len(resp[1].body.audioFiles) = 2
    /\ resp[1].body.audioFiles[1].createdAt > resp[1].body.audioFiles[2].createdAt
    /\ \E a \in DOMAIN audioFiles : audioFiles[a].userId # Caller(resp[1].req)

\* The fields of a registration have the lengths and the email form the
\* route asks for.
ValidRegistration(r) ==
    /\ r.username # Absent /\ r.username[1].len >= 3
    /\ r.password # Absent /\ r.password[1].len >= 6
    /\ r.email # Absent => r.email[1].wellFormed

NameTaken(n) == \E u \in DOMAIN users : users[u].username = n

EmailTaken(e) == e # Absent /\ \E u \in DOMAIN users : users[u].email = e

\* Every account that exists before the step is the same after it.
AccountsKept == \A u \in DOMAIN users : u \in DOMAIN users' /\ users'[u] = users[u]

\* C16: a valid registration of a display name that belongs to an account
\* is answered 409 and changes no account and no asset; no registration of a
\* taken name ever succeeds, a successful one adds one account and leaves
\* the others as they are, and no two accounts share a display name.
RegisterConflictStep ==
    (Answers /\ resp'[1].req.op = "register")
    => LET r == resp'[1].req
       IN /\ (r.username # Absent /\ NameTaken(r.username[1]))
             => /\ resp'[1].status \in {400, 409}
                /\ ValidRegistration(r) => resp'[1].status = 409
                /\ UNCHANGED <<users, audioFiles>>
          /\ resp'[1].status = 201
             => /\ ~NameTaken(r.username[1])
                /\ AccountsKept
                /\ Cardinality(DOMAIN users') = Cardinality(DOMAIN users) + 1
                /\ UNCHANGED audioFiles

UniqueDisplayNames ==
    /\ [](\A u, v \in DOMAIN users :
            u # v => users[u].username # users[v].username)
    /\ [][RegisterConflictStep]_vars

\* A second registration of carol was answered 409 while the first one's
\* account and an asset of another account exist.
UniqueDisplayNamesWitness ==
    /\ resp # <<>>
    /\ resp[1].req.op = "register"
    /\ resp[1].req.username = <<Carol>>
    /\ resp[1].status = 409
    /\ "u3" \in DOMAIN users
    /\ users["u3"].username = Carol
    /\ audioFiles # <<>>

\* The answer to a registration with too short a username or password:
\* 400, no account, no token.
ShortFieldsRejected ==
    LET r == resp'[1].req
    IN (fieldLength(r.username) < 3 \/ fieldLength(r.password) < 6)
       => /\ resp'[1].status = 400
          /\ resp'[1].body.kind # "auth"
          /\ UNCHANGED users

\* The answer 201 to a registration: a token for the new account and the
\* registered username.
Registered ==
    LET r == resp'[1].req
    IN /\ resp'[1].status = 201
       /\ resp'[1].body.kind = "auth"
       /\ resp'[1].body.user.username = r.username[1]
       /\ jwtVerify(resp'[1].body.token)
       /\ resp'[1].body.token.userId \in DOMAIN users' \ DOMAIN users
       /\ users'[resp'[1].body.token.userId].username = r.username[1]

\* C17, as the spec states it: a registration with a username shorter than
\* 3 or a password shorter than 6 characters is answered 400, creates no
\* account and issues no token; one with valid fields and an unused
\* username is answered 201 with a token and the registered username.
RegisterValidated ==
    [][(Answers /\ resp'[1].req.op = "register")
       => /\ ShortFieldsRejected
          /\ (/\ ValidRegistration(resp'[1].req)
              /\ ~NameTaken(resp'[1].req.username[1]))
             => Registered]_vars

\* C17, amended: as above, the 201 being for valid fields, an unused
\* username and, when an email is given, an email no account holds.
RegisterValidatedUnusedEmail ==
    [][(Answers /\ resp'[1].req.op = "register")
       => /\ ShortFieldsRejected
          /\ (/\ ValidRegistration(resp'[1].req)
              /\ ~NameTaken(resp'[1].req.username[1])
              /\ ~EmailTaken(resp'[1].req.email))
             => Registered]_vars

\* A registration carrying the email of a deleted account was answered 201.
RegisterValidatedUnusedEmailWitness ==
    /\ resp # <<>>
    /\ resp[1].req.op = "register"
    /\ resp[1].status = 201
    /\ resp[1].req.email = <<AliceEmail>>
    /\ "u1" \notin DOMAIN users
    /\ "u3" \in DOMAIN users

\* An account holds the username of r and stores the hash of its password.
CredentialsMatch(r) ==
    /\ r.username # Absent /\ r.password # Absent
    /\ \E u \in DOMAIN users :
          /\ users[u].username = r.username[1]
          /\ users[u].password = [bcrypt |-> r.password[1].text]

\* The answer 200 to a login carries a token of the account of that name.
LoggedIn ==
    resp'[1].status = 200
    => /\ resp'[1].body.kind = "auth"
       /\ jwtVerify(resp'[1].body.token)
       /\ users[resp'[1].body.token.userId].username = resp'[1].req.username[1]

\* C18, as the spec states it: a login is answered 200 with a token exactly
\* when an account with the given username exists and the given password
\* matches the secret it stores now, and 401 otherwise.
LoginTwoOutcomes ==
    [][(Answers /\ resp'[1].req.op = "login")
       => /\ resp'[1].status = (IF CredentialsMatch(resp'[1].req) THEN 200 ELSE 401)
          /\ LoggedIn
          /\ UNCHANGED <<users, audioFiles>>]_vars

\* C18, amended: as above for a login whose username and password are both
\* non-empty; a login with an empty or missing one is answered 400, with no
\* token.
LoginMatchesStoredSecret ==
    [][(Answers /\ resp'[1].req.op = "login")
       => /\ resp'[1].status =
                (IF \/ fieldLength(resp'[1].req.username) = 0
                    \/ fieldLength(resp'[1].req.password) = 0
                 THEN 400
                 ELSE IF CredentialsMatch(resp'[1].req) THEN 200 ELSE 401)
          /\ LoggedIn
          /\ UNCHANGED <<users, audioFiles>>]_vars

\* A login with the new password was answered 200 after the account's
\* password was updated, and the account registered meanwhile exists.
LoginMatchesStoredSecretWitness ==
    /\ resp # <<>>
    /\ resp[1].req.op = "login"
    /\ resp[1].req.password = <<NewPass1>>
    /\ resp[1].status = 200
    /\ "u3" \in DOMAIN users

\* An update of the caller's own account changes only the fields the body
\* supplies, no other account and no asset.
OwnUpdateFrame ==
    (/\ Answers
     /\ resp'[1].req.op = "updateUser"
     /\ ValidBearer(resp'[1].req)
     /\ resp'[1].req.userId = Caller(resp'[1].req))
    => LET r == resp'[1].req
       IN /\ UNCHANGED audioFiles
          /\ DOMAIN users' = DOMAIN users
          /\ \A u \in DOMAIN users \ {r.userId} : users'[u] = users[u]
          /\ r.userId \in DOMAIN users
             => /\ r.username = Absent => users'[r.userId].username = users[r.userId].username
                /\ r.password = Absent => users'[r.userId].password = users[r.userId].password
                /\ r.email = Absent => users'[r.userId].email = users[r.userId].email
                /\ resp'[1].status = 200
                   => /\ r.username # Absent => users'[r.userId].username = r.username[1]
                      /\ r.password # Absent
                         => users'[r.userId].password = [bcrypt |-> r.password[1].text]
                      /\ r.email # Absent => users'[r.userId].email = r.email
                /\ resp'[1].status # 200 => users' = users

\* The step answers an account update or delete that targets another
\* identifier than the caller's.
AnswersForeignTarget ==
    /\ Answers
    /\ resp'[1].req.op \in {"updateUser", "deleteUser"}
    /\ ValidBearer(resp'[1].req)
    /\ resp'[1].req.userId # Caller(resp'[1].req)

\* The body of an account update has the lengths and the email form the
\* route asks for, in the fields it supplies.
ValidUpdate(r) ==
    /\ r.username # Absent => r.username[1].len >= 3
    /\ r.password # Absent => r.password[1].len >= 6
    /\ r.email # Absent => r.email[1].wellFormed

\* C19, as the spec states it: an account update or delete targeting
\* another identifier than the caller's is answered 403 and changes no
\* account; an update of the caller's own account changes only the fields
\* supplied.
ForeignAccountForbidden ==
    [][/\ AnswersForeignTarget
          => /\ resp'[1].status = 403
             /\ UNCHANGED <<users, audioFiles>>
       /\ OwnUpdateFrame]_vars

\* C19, amended: the update or delete targeting another identifier changes
\* no account and is answered 403, except that an update whose body fails
\* validation is answered 400; the rest as stated.
ForeignAccountUntouched ==
    [][/\ AnswersForeignTarget
          => /\ resp'[1].status =
                    (IF resp'[1].req.op = "updateUser" /\ ~ValidUpdate(resp'[1].req)
                     THEN 400 ELSE 403)
             /\ UNCHANGED <<users, audioFiles>>
       /\ OwnUpdateFrame]_vars

\* An update of another account with a valid body was answered 403 after
\* the caller changed the password of their own account.
ForeignAccountUntouchedWitness ==
    /\ resp # <<>>
    /\ resp[1].req.op = "updateUser"
    /\ resp[1].req.userId # Caller(resp[1].req)
    /\ resp[1].status = 403
    /\ resp[1].req.userId \in DOMAIN users
    /\ Caller(resp[1].req) \in DOMAIN users
    /\ users[Caller(resp[1].req)].password = [bcrypt |-> NewPass1.text]

\* C20: deleting an account removes, in the same step, every asset record
\* it owns and no other; in every state each asset record's owner is an
\* existing account.
CascadeStep ==
    (/\ Answers
     /\ resp'[1].req.op = "deleteUser"
     /\ resp'[1].status = 200)
    => LET id == resp'[1].req.userId
       IN /\ id \in DOMAIN users /\ id \notin DOMAIN users'
          /\ DOMAIN audioFiles' =
                 { a \in DOMAIN audioFiles : audioFiles[a].userId # id }
          /\ \A a \in DOMAIN audioFiles' : audioFiles'[a] = audioFiles[a]
          /\ \A u \in DOMAIN users \ {id} : u \in DOMAIN users' /\ users'[u] = users[u]

OwnersExist ==
    /\ [](\A a \in DOMAIN audioFiles : audioFiles[a].userId \in DOMAIN users)
    /\ [][CascadeStep]_vars

\* An account was deleted: its asset is gone with it, the asset of the
\* other account is still there.
OwnersExistWitness ==
    /\ resp # <<>>
    /\ resp[1].req.op = "deleteUser"
    /\ resp[1].status = 200
    /\ \E p \in Procs :
          /\ reqs[p].req.op = "upload"
          /\ reqs[p].status = 201
          /\ reqs[p].userId = resp[1].req.userId
          /\ p \notin DOMAIN audioFiles
    /\ audioFiles # <<>>

\* The assets of the account and file name the probe r names.
Probed(r) ==
    { a \in DOMAIN audioFiles :
          /\ audioFiles[a].fileName = r.fileName
          /\ audioFiles[a].userId = r.userId }

\* C21: the duplicate-name probe for (file name, account) answers 200 with
\* an asset of that account and exactly that file name whenever one exists,
\* and 200 with a message and no asset otherwise; it changes no state.
ProbeStep ==
    (Answers /\ resp'[1].req.op = "check" /\ ValidBearer(resp'[1].req))
    => /\ resp'[1].status = 200
       /\ IF Probed(resp'[1].req) # {}
          THEN /\ resp'[1].body.kind = "check"
               /\ \E a \in Probed(resp'[1].req) :
                     resp'[1].body.audioFile = audioFiles[a]
          ELSE /\ resp'[1].body.kind = "message"
               /\ Records(resp'[1].body) = {}
       /\ UNCHANGED <<users, audioFiles, bucket, clock, reqs>>

ProbeFindsSameName == [][ProbeStep]_vars

\* The probe answered with an asset while the account owns an asset of
\* another name and another account owns one of the same name.
ProbeFindsSameNameWitness ==
    /\ resp # <<>>
    /\ resp[1].req.op = "check"
    /\ resp[1].body.kind = "check"
    /\ \E a, b \in DOMAIN audioFiles :
          /\ audioFiles[a].userId = resp[1].req.userId
          /\ audioFiles[a].fileName # resp[1].req.fileName
          /\ audioFiles[b].userId # resp[1].req.userId
          /\ audioFiles[b].fileName = resp[1].req.fileName

\* C22: an upload is never turned away because the account already has an
\* asset of the same file name: it is answered 201 and adds a record beside
\* the existing ones; any two records have distinct identifiers and
\* distinct storage keys, and each stored record's blob is its own.
UploadAddsRecordStep ==
    \A p \in Procs :
        (reqs'[p].req.op = "upload" /\ ~Done(p) /\ reqs'[p].pc = "done")
        => /\ reqs'[p].status = 201
           /\ DOMAIN audioFiles' = DOMAIN audioFiles \cup {p}
           /\ p \notin DOMAIN audioFiles
           /\ \A a \in DOMAIN audioFiles : audioFiles'[a] = audioFiles[a]

SameNameUploadsCoexist ==
    /\ [](\A a, b \in DOMAIN audioFiles :
              (a # b) => (/\ audioFiles[a].id # audioFiles[b].id
                          /\ audioFiles[a].s3Key # audioFiles[b].s3Key))
    /\ []((resp # <<>>) => (resp[1].req.op # "upload"))
    /\ [][UploadAddsRecordStep]_vars

\* Two records of the same account and the same file name, each with its
\* own blob in the bucket.
SameNameUploadsCoexistWitness ==
    \E a, b \in DOMAIN audioFiles :
        /\ a # b
        /\ audioFiles[a].userId = audioFiles[b].userId
        /\ audioFiles[a].fileName = audioFiles[b].fileName
        /\ audioFiles[a].s3Key \in bucket
        /\ audioFiles[b].s3Key \in bucket
        /\ audioFiles[a].s3Key # audioFiles[b].s3Key

\* C23: while a record exists its owner and its storage key stay what they
\* were at creation, whatever happens to the owner's account.
OwnerAndKeyKeptStep ==
    \A a \in DOMAIN audioFiles \cap DOMAIN audioFiles' :
        /\ audioFiles'[a].userId = audioFiles[a].userId
        /\ audioFiles'[a].s3Key = audioFiles[a].s3Key

OwnerAndKeyKept == [][OwnerAndKeyKeptStep]_vars

\* An update of an account was answered 200 while the account owns a
\* record: the record names the same owner and the key of its upload.
OwnerAndKeyKeptWitness ==
    /\ resp # <<>>
    /\ resp[1].req.op = "updateUser"
    /\ resp[1].status = 200
    /\ users[resp[1].req.userId] # InitialUsers[resp[1].req.userId]
    /\ \E a \in DOMAIN audioFiles :
          /\ audioFiles[a].userId = resp[1].req.userId
          /\ audioFiles[a].s3Key = S3Key(resp[1].req.userId, a, "a.mp3")
          /\ audioFiles[a].s3Key \in bucket

\* C24: every response with a failure status, from any endpoint, carries an
\* `error` field.
FailuresCarryError ==
    /\ (resp # <<>> /\ resp[1].status >= 400)
       => "error" \in DOMAIN resp[1].body
    /\ \A p \in Procs :
          (Done(p) /\ reqs[p].status >= 400) => "error" \in DOMAIN reqs[p].body

\* C26: a request made with the token of an account that no longer exists
\* changes neither the accounts, nor the records, nor the bucket.
DeletedAccountStep ==
    (\/ \E p \in Procs : Starts(p) /\ reqs'[p].userId \notin DOMAIN users
     \/ /\ Answers
        /\ ValidBearer(resp'[1].req)
        /\ Caller(resp'[1].req) \notin DOMAIN users)
    => UNCHANGED <<users, audioFiles, bucket>>

DeletedAccountInert == [][DeletedAccountStep]_vars

\* C27: a login that fails on its credentials is answered 401 with one and
\* the same body, whether or not an account of the given username exists.
LoginFailureStep ==
    (Answers /\ resp'[1].req.op = "login" /\ resp'[1].status \notin {200, 400})
    => /\ resp'[1].status = 401
       /\ resp'[1].body = ErrorBody("Invalid credentials")
       /\ UNCHANGED <<users, audioFiles, bucket, clock, reqs>>

LoginFailureCasesStep ==
    (Answers /\ resp'[1].req.op = "login" /\ loginValidators(resp'[1].req) = {})
    => LET r == resp'[1].req
           named == { u \in DOMAIN users : users[u].username = r.username[1] }
       IN (\/ named = {}
           \/ \A u \in named : users[u].password # bcryptHash(r.password[1]))
          => resp'[1].status = 401

LoginFailureUniform == [][LoginFailureStep /\ LoginFailureCasesStep]_vars

\* The login of carol with a wrong password is answered 401 while carol's
\* account exists; the same login is answered before carol registers.
LoginFailureUniformWitness ==
    /\ resp # <<>>
    /\ resp[1].req.op = "login"
    /\ resp[1].status = 401
    /\ resp[1].req.username = <<Carol>>
    /\ \E u \in DOMAIN users : users[u].username = Carol

\* C28: a file the upload form keeps is not turned away by the server's
\* file filter or size limit.
FormFilesPassMulter ==
    (/\ resp # <<>>
     /\ resp[1].req.op = "upload"
     /\ ValidBearer(resp[1].req)
     /\ resp[1].req.file # NoFile
     /\ handleFileChange(resp[1].req.file[1]) = "")
    => resp[1].body \notin {ErrorBody("Invalid file type"),
                            ErrorBody("File too large")}

\* C25: no body of the error handler carries the stack when NODE_ENV is
\* production, whatever the error; a body with a stack comes from a
\* configuration other than production.
NoStackInProduction ==
    resp # <<>>
    => /\ resp[1].req.nodeEnv = "production" => "stack" \notin DOMAIN resp[1].body
       /\ "stack" \in DOMAIN resp[1].body => resp[1].req.nodeEnv # "production"

\* In production an error that no branch of the handler recognises was
\* answered with its own status and message, and no stack.
NoStackInProductionWitness ==
    /\ resp # <<>>
    /\ resp[1].req.nodeEnv = "production"
    /\ resp[1].req.err.name = "Error"
    /\ resp[1].status = 404
    /\ resp[1].body = [error |-> "boom"]

\* C29: at most one audio element plays at any time, and when one plays it
\* is the element the Dashboard records as current.
OnePlayingAtATime ==
    /\ Cardinality(playing) <= 1
    /\ playing # {} => playing = {dashboard.audioElement[i] :
                                      i \in DOMAIN dashboard.audioElement}

\* C30: a file whose delete request completed successfully is not on
\* display.
DeletedStaysHidden ==
    \A h \in Clicks :
        (handlers[h].op = "delete" /\ handlers[h].pc = "done" /\ handlers[h].ok)
        => handlers[h].id \notin Displayed

====
